---- MODULE Spec2Model ----
(***************************************************************************)
(* Kit package manager (kit_pm): the registry store (PackageRegistry), the *)
(* validation gateway (KitValidator) and the install command (cmd_install).*)
(*                                                                         *)
(* Conventions                                                             *)
(*   - a Python str that is lowercased or searched is a sequence of        *)
(*     one-character strings, so that str.lower() is a real conversion;    *)
(*   - Optional[T] is None == <<>> or Some(x) == <<x>>;                    *)
(*   - a Python dict is a sequence of [key, value] pairs with distinct     *)
(*     keys, in insertion order;                                           *)
(*   - a JSON object is a TLA+ record whose DOMAIN is the set of the       *)
(*     fields that are present;                                            *)
(*   - trust_score is counted in tenths (5 stands for 0.5).                *)
(***************************************************************************)
EXTENDS Integers, Sequences, FiniteSets, TLC

VARIABLES
    file,         \* the document at registry_path (or its absence)
    packages,     \* PackageRegistry._packages
    load_status,  \* what the last _load did: "missing", "warning" or "loaded"
    call,         \* the last registry / CLI call: its name, arguments and result
    package,      \* the Package handed to KitValidator.validate
    runs          \* two runs of validate on `package`: advisory outcome and result

vars == <<file, packages, load_status, call, package, runs>>

(***************************************************************************)
(* Bounds of the model                                                     *)
(***************************************************************************)
MaxEntries == 2   \* entries of a registry document

(***************************************************************************)
(* Python values                                                           *)
(***************************************************************************)
None == <<>>

Some(x) == <<x>>

\* str.lower(), one character
LowerChar(c) ==
    CASE c = "F" -> "f"
      [] c = "O" -> "o"
      [] c = "B" -> "b"
      [] OTHER -> c

\* str.lower()
Lower(s) == [i \in DOMAIN s |-> LowerChar(s[i])]

\* `sub in s` for two str
Contains(s, sub) ==
    \E i \in 0..(Len(s) - Len(sub)) :
        \A j \in 1..Len(sub) : s[i + j] = sub[j]

\* dict.get(k, default) on a JSON object
ObjGet(obj, k, default) == IF k \in DOMAIN obj THEN obj[k] ELSE default

\* truth value of an Optional[str]: None and "" are both false
Truthy(opt) == opt # None /\ opt[1] # <<>>

\* the keys of a dict, as a set
Keys(d) == {d[i].key : i \in DOMAIN d}

\* d[k] = v : an existing key keeps its place, a new key is appended
DictSet(d, k, v) ==
    IF k \in Keys(d)
    THEN [i \in DOMAIN d |-> IF d[i].key = k THEN [key |-> k, value |-> v] ELSE d[i]]
    ELSE Append(d, [key |-> k, value |-> v])

\* d.get(k) : Optional
DictGet(d, k) ==
    IF k \in Keys(d)
    THEN Some(d[CHOOSE i \in DOMAIN d : d[i].key = k].value)
    ELSE None

(***************************************************************************)
(* Package (dataclass) and the values the model draws its fields from      *)
(***************************************************************************)
Names == { <<"f", "o">>, <<"F", "o">>, <<"b">> }

Scores == {2, 4, 5, 9, 12}

\* the policy threshold of validate and is_trusted, in tenths
MinTrust == 5

\* Package(name=pkg_data.get("name", name), ...) as _load constructs it
MakePackage(name, pkg_data) ==
    [ name           |-> ObjGet(pkg_data, "name", name),
      description    |-> ObjGet(pkg_data, "description", <<>>),
      trust_score    |-> ObjGet(pkg_data, "trust_score", 0),
      jis_compliant  |-> ObjGet(pkg_data, "jis_compliant", FALSE),
      snaft_verified |-> ObjGet(pkg_data, "snaft_verified", FALSE),
      pypi           |-> ObjGet(pkg_data, "pypi", None) ]

(***************************************************************************)
(* KitValidator.validate                                                   *)
(***************************************************************************)
\* what the advisory endpoint does with the one request of a validate call
AdvisoryOutcomes ==
    { [kind |-> "timeout",            text |-> None],
      [kind |-> "connection_refused", text |-> None],
      [kind |-> "bad_status",         text |-> None],
      [kind |-> "unparsable",         text |-> None],
      [kind |-> "ok",                 text |-> None],
      [kind |-> "ok",                 text |-> Some("safe")],
      [kind |-> "ok",                 text |-> Some("block")] }

AiOffline == "Kit AI offline, using local validation"

TrustWarning(score) == <<"Trust score", score, "below minimum 0.5">>

JisWarning == <<"Package is not JIS compliant">>

SnaftWarning == <<"Package is not SNAFT verified">>

\* the result dict as first built
InitialResult(pkg) ==
    [ valid       |-> TRUE,
      trust_ok    |-> pkg.trust_score >= MinTrust,
      jis_ok      |-> pkg.jis_compliant,
      snaft_ok    |-> pkg.snaft_verified,
      ai_response |-> None,
      warnings    |-> <<>> ]

\* CheckTrust with the warnings.append left out
CheckTrustNoWarning(result, pkg) ==
    IF ~result.trust_ok THEN [result EXCEPT !.valid = FALSE] ELSE result

\* # Check trust score
CheckTrust(result, pkg) ==
    IF ~result.trust_ok
    THEN [result EXCEPT !.valid = FALSE,
                        !.warnings = Append(@, TrustWarning(pkg.trust_score))]
    ELSE result

\* # Check JIS compliance
CheckJis(result) ==
    IF ~result.jis_ok
    THEN [result EXCEPT !.valid = FALSE, !.warnings = Append(@, JisWarning)]
    ELSE result

\* CheckSnaft with result["valid"] = False left out
CheckSnaftWarnOnly(result) ==
    IF ~result.snaft_ok
    THEN [result EXCEPT !.warnings = Append(@, SnaftWarning)]
    ELSE result

\* # Check SNAFT verification
CheckSnaft(result) ==
    IF ~result.snaft_ok
    THEN [result EXCEPT !.valid = FALSE, !.warnings = Append(@, SnaftWarning)]
    ELSE result

\* requests.post raises (Timeout, ConnectionError)
PostRaises(adv) == adv.kind \in {"timeout", "connection_refused"}

\* response.ok
ResponseOk(adv) == adv.kind \in {"ok", "unparsable"}

\* response.json() raises
JsonRaises(adv) == adv.kind = "unparsable"

\* TryKitAI where an unavailable advisory service also clears valid
TryKitAIGating(result, adv) ==
    IF PostRaises(adv) \/ ~ResponseOk(adv) \/ JsonRaises(adv)
    THEN [result EXCEPT !.valid = FALSE, !.ai_response = Some(AiOffline)]
    ELSE [result EXCEPT !.ai_response =
              IF adv.text = None THEN Some("") ELSE adv.text]

\* # Try Kit AI validation: the try / except around requests.post
TryKitAI(result, adv) ==
    IF PostRaises(adv)
    THEN [result EXCEPT !.ai_response = Some(AiOffline)]
    ELSE IF ResponseOk(adv)
         THEN IF JsonRaises(adv)
              THEN [result EXCEPT !.ai_response = Some(AiOffline)]
              ELSE [result EXCEPT !.ai_response =
                        IF adv.text = None THEN Some("") ELSE adv.text]
         ELSE result

\* validate(package, action) when the advisory endpoint does `adv`
validate(pkg, action, adv) ==
    TryKitAI(CheckSnaft(CheckJis(CheckTrust(InitialResult(pkg), pkg))), adv)

(***************************************************************************)
(* PackageRegistry                                                         *)
(***************************************************************************)
\* registry_path does not exist
MissingFile == [exists |-> FALSE, json_ok |-> FALSE, entries |-> <<>>]

\* a file json.loads rejects, or whose top level is no object
MalformedFile == [exists |-> TRUE, json_ok |-> FALSE, entries |-> <<>>]

\* a file holding {"packages": {key: value, ...}}, in document order
FileOf(entries) == [exists |-> TRUE, json_ok |-> TRUE, entries |-> entries]

\* one item of data["packages"]: an object, or a value with no .get (a number)
ObjectEntry(k, obj) == [key |-> k, is_object |-> TRUE, fields |-> obj]

ScalarEntry(k) == [key |-> k, is_object |-> FALSE, fields |-> <<>>]

\* the for loop of _load over data["packages"].items(): each item is stored
\* under its key as written, until an item that is no object raises
LoadItems(pkgs, entries) ==
    LET F[n \in 0..Len(entries)] ==
            IF n = 0
            THEN [raised |-> FALSE, packages |-> pkgs]
            ELSE IF F[n - 1].raised
                 THEN F[n - 1]
                 ELSE IF ~entries[n].is_object
                      THEN [raised |-> TRUE, packages |-> F[n - 1].packages]
                      ELSE [raised |-> FALSE,
                            packages |-> DictSet(F[n - 1].packages,
                                                 entries[n].key,
                                                 MakePackage(entries[n].key,
                                                             entries[n].fields))]
    IN  F[Len(entries)]

\* _load whose except branch does not reset self._packages
LoadKeepPartial(pkgs, f) ==
    IF ~f.exists
    THEN [packages |-> <<>>, status |-> "missing"]
    ELSE IF ~f.json_ok
         THEN [packages |-> pkgs, status |-> "warning"]
         ELSE LET r == LoadItems(pkgs, f.entries)
              IN  [packages |-> r.packages,
                   status   |-> IF r.raised THEN "warning" ELSE "loaded"]

\* _load: self._packages and the diagnostic, from the current self._packages
\* and the file at registry_path
Load(pkgs, f) ==
    IF ~f.exists
    THEN [packages |-> <<>>, status |-> "missing"]
    ELSE IF ~f.json_ok
         THEN [packages |-> <<>>, status |-> "warning"]
         ELSE LET r == LoadItems(pkgs, f.entries)
              IN  IF r.raised
                  THEN [packages |-> <<>>, status |-> "warning"]
                  ELSE [packages |-> r.packages, status |-> "loaded"]

\* get(name)
get(pkgs, name) == DictGet(pkgs, Lower(name))

\* search(query)
search(pkgs, query) ==
    LET q == Lower(query)
        Hit(item) == \/ Contains(Lower(item.key), q)
                     \/ Contains(Lower(item.value.description), q)
                     \/ Contains(Lower(item.value.name), q)
        hits == SelectSeq(pkgs, Hit)
    IN  [i \in DOMAIN hits |-> hits[i].value]

\* list_all()
list_all(pkgs) == [i \in DOMAIN pkgs |-> pkgs[i].value]

\* what the remote registry, and the local disk, do during one update()
\*   timeout, connection_refused : requests.get raises
\*   bad_status                  : response.ok is false
\*   write_failed                : response.ok, write_text raises
\*   ok                          : response.ok and the text is written
FetchKinds == {"timeout", "connection_refused", "bad_status", "write_failed", "ok"}

\* update() that empties self._packages when the fetch fails
UpdateClearsOnFailure(pkgs, status, f, fetch) ==
    IF fetch.kind = "ok"
    THEN LET l == Load(pkgs, fetch.doc)
         IN  [ret |-> TRUE, file |-> fetch.doc,
              packages |-> l.packages, status |-> l.status]
    ELSE [ret |-> FALSE, file |-> f, packages |-> <<>>, status |-> status]

\* update(): the return value, the file, self._packages and the diagnostic
\* afterwards. A write that raises leaves the file as fetch.doc says: as it
\* was, or truncated.
Update(pkgs, status, f, fetch) ==
    IF fetch.kind = "ok"
    THEN LET l == Load(pkgs, fetch.doc)
         IN  [ret |-> TRUE, file |-> fetch.doc,
              packages |-> l.packages, status |-> l.status]
    ELSE IF fetch.kind = "write_failed"
         THEN [ret |-> FALSE, file |-> fetch.doc, packages |-> pkgs, status |-> status]
         ELSE [ret |-> FALSE, file |-> f, packages |-> pkgs, status |-> status]

(***************************************************************************)
(* cmd_install                                                             *)
(***************************************************************************)
\* cmd_install without the `if not validation["valid"]` block
CmdInstallNoGate(pkgs, args, adv, pip_rc) ==
    LET found == get(pkgs, Lower(args.package))
    IN  IF found = None
        THEN [ret |-> 1, pip |-> <<>>, validation |-> None]
        ELSE LET pkg == found[1]
                 v   == validate(pkg, "install", adv)
             IN  IF Truthy(pkg.pypi)
                 THEN [ret |-> IF pip_rc # 0 THEN 1 ELSE 0,
                       pip |-> <<pkg.pypi[1]>>, validation |-> Some(v)]
                 ELSE [ret |-> 0, pip |-> <<>>, validation |-> Some(v)]

\* cmd_install(args, registry, validator): the return code, the pip
\* invocations made (their package argument) and the verdict, when the
\* advisory endpoint does `adv` and pip would exit with pip_rc
cmd_install(pkgs, args, adv, pip_rc) ==
    LET found == get(pkgs, Lower(args.package))
    IN  IF found = None
        THEN [ret |-> 1, pip |-> <<>>, validation |-> None]
        ELSE LET pkg == found[1]
                 v   == validate(pkg, "install", adv)
             IN  IF ~v.valid /\ ~args.force
                 THEN [ret |-> 1, pip |-> <<>>, validation |-> Some(v)]
                 ELSE IF Truthy(pkg.pypi)
                      THEN [ret |-> IF pip_rc # 0 THEN 1 ELSE 0,
                            pip |-> <<pkg.pypi[1]>>, validation |-> Some(v)]
                      ELSE [ret |-> 0, pip |-> <<>>, validation |-> Some(v)]

(***************************************************************************)
(* Inputs                                                                  *)
(***************************************************************************)
\* sequences of at most MaxEntries entries with distinct keys: the items of
\* a parsed JSON object
EntrySeqs(entries) ==
    { es \in UNION { [1..n -> entries] : n \in 0..MaxEntries } :
        \A i, j \in DOMAIN es : i # j => es[i].key # es[j].key }

EmptyObject == <<>>

FullObject ==
    [ name |-> <<"F", "o">>, description |-> <<"b", "O">>, trust_score |-> 9,
      jis_compliant |-> TRUE, snaft_verified |-> TRUE, pypi |-> Some(<<"f", "o">>) ]

RegistryEntries ==
    { ObjectEntry(k, o) : k \in Names, o \in {EmptyObject, FullObject} }
        \cup { ScalarEntry(<<"b">>) }

RegistryDocs == {MalformedFile} \cup { FileOf(es) : es \in EntrySeqs(RegistryEntries) }

Queries == { <<"O">>, <<"b">>, <<"x">> }

InstallObjects ==
    { [trust_score |-> 9, jis_compliant |-> TRUE, snaft_verified |-> TRUE],
      [trust_score |-> 5, jis_compliant |-> TRUE, snaft_verified |-> TRUE,
       pypi |-> Some(<<"f", "o">>)],
      [trust_score |-> 4, jis_compliant |-> TRUE, snaft_verified |-> TRUE,
       pypi |-> Some(<<"f", "o">>)],
      [trust_score |-> 9, jis_compliant |-> FALSE, snaft_verified |-> TRUE,
       pypi |-> Some(<<"b">>)],
      [trust_score |-> 9, jis_compliant |-> TRUE, pypi |-> Some(<<"b">>)],
      [trust_score |-> 2, pypi |-> Some(<<>>)] }

InstallEntries ==
    { ObjectEntry(k, o) : k \in Names, o \in InstallObjects }
        \cup { ScalarEntry(k) : k \in Names }

InstallDocs == {MalformedFile} \cup { FileOf(es) : es \in EntrySeqs(InstallEntries) }

ValidatorPackages ==
    [ name : Names, description : {<<>>}, trust_score : Scores,
      jis_compliant : BOOLEAN, snaft_verified : BOOLEAN, pypi : {None} ]

(***************************************************************************)
(* State machine                                                           *)
(***************************************************************************)
NoCall == [op |-> "none"]

IdleRun == [pc |-> "idle", advisory |-> None, result |-> None]

NoRuns == [r \in {1, 2} |-> IdleRun]

\* PackageRegistry(): __init__ sets _packages = {} and calls _load
Constructed(f) ==
    /\ file = f
    /\ packages = Load(<<>>, f).packages
    /\ load_status = Load(<<>>, f).status
    /\ call = NoCall

\* registry.update()
DoUpdate ==
    \E kind \in FetchKinds :
      \E doc \in IF kind = "ok" THEN RegistryDocs
                 ELSE IF kind = "write_failed" THEN {file, MalformedFile}
                 ELSE {file} :
        LET u == Update(packages, load_status, file, [kind |-> kind, doc |-> doc])
        IN  /\ file' = u.file
            /\ packages' = u.packages
            /\ load_status' = u.status
            /\ call' = [op |-> "update", arg |-> kind, ret |-> u.ret]
            /\ UNCHANGED <<package, runs>>

\* registry.get(name)
DoGet ==
    \E n \in Names :
        /\ call' = [op |-> "get", arg |-> n, ret |-> get(packages, n)]
        /\ UNCHANGED <<file, packages, load_status, package, runs>>

\* registry.search(query)
DoSearch ==
    \E q \in Queries :
        /\ call' = [op |-> "search", arg |-> q, ret |-> search(packages, q)]
        /\ UNCHANGED <<file, packages, load_status, package, runs>>

\* registry.list_all()
DoListAll ==
    /\ call' = [op |-> "list_all", arg |-> None, ret |-> list_all(packages)]
    /\ UNCHANGED <<file, packages, load_status, package, runs>>

\* validator.validate(package, "install"), run r
DoValidate ==
    \E r \in {1, 2}, adv \in AdvisoryOutcomes :
        /\ runs[r].pc = "idle"
        /\ runs' = [runs EXCEPT ![r] =
                      [pc |-> "returned", advisory |-> Some(adv),
                       result |-> Some(validate(package, "install", adv))]]
        /\ UNCHANGED <<file, packages, load_status, call, package>>

\* main() running `kit install <package> [--force]`: one command per process
DoInstall ==
    \E n \in Names, force \in BOOLEAN, adv \in AdvisoryOutcomes, pip_rc \in {0, 1} :
        LET args == [package |-> n, force |-> force]
            r    == cmd_install(packages, args, adv, pip_rc)
        IN  /\ call.op = "none"
            /\ call' = [op |-> "install", arg |-> args, ret |-> r.ret,
                        pip |-> r.pip, validation |-> r.validation]
            /\ UNCHANGED <<file, packages, load_status, package, runs>>

\* the registry as a library object: any sequence of calls
InitRegistry ==
    /\ \E f \in {MissingFile} \cup RegistryDocs : Constructed(f)
    /\ package = None
    /\ runs = NoRuns

NextRegistry == DoUpdate \/ DoGet \/ DoSearch \/ DoListAll

SpecRegistry == InitRegistry /\ [][NextRegistry]_vars

\* the validator on one package, run twice
InitValidator ==
    /\ Constructed(MissingFile)
    /\ package \in ValidatorPackages
    /\ runs = NoRuns

NextValidator == DoValidate

SpecValidator == InitValidator /\ [][NextValidator]_vars

\* the command line: construct the registry, run install
InitInstall ==
    /\ \E f \in {MissingFile} \cup InstallDocs : Constructed(f)
    /\ package = None
    /\ runs = NoRuns

NextInstall == DoInstall

SpecInstall == InitInstall /\ [][NextInstall]_vars

Init == InitRegistry

Next == NextRegistry

Spec == SpecRegistry

(***************************************************************************)
(* Claims: KitValidator.validate (under SpecValidator)                     *)
(***************************************************************************)
Returned(r) == runs[r].pc = "returned"

Verdict(r) == runs[r].result[1]

Advisory(r) == runs[r].advisory[1]

\* C1: every verdict has trust_ok = (trust_score >= 0.5), jis_ok =
\* jis_compliant, snaft_ok = snaft_verified, each read from its own attribute
\* alone, and valid = trust_ok AND jis_ok AND snaft_ok; a package that passes
\* all three checks is valid.
C1_VerdictIsConjunction ==
    \A r \in {1, 2} :
        Returned(r) =>
            /\ Verdict(r).trust_ok = (package.trust_score >= 5)
            /\ Verdict(r).jis_ok = package.jis_compliant
            /\ Verdict(r).snaft_ok = package.snaft_verified
            /\ Verdict(r).valid =
                   (Verdict(r).trust_ok /\ Verdict(r).jis_ok /\ Verdict(r).snaft_ok)
            /\ (package.trust_score >= 5 /\ package.jis_compliant
                    /\ package.snaft_verified => Verdict(r).valid)

\* a package exactly on the threshold, passing all checks, has been validated
C1_Witness ==
    /\ Returned(1)
    /\ package.trust_score = 5 /\ package.jis_compliant /\ package.snaft_verified
    /\ Verdict(1).valid

ExpectedWarnings(pkg) ==
    (IF pkg.trust_score < 5 THEN <<TrustWarning(pkg.trust_score)>> ELSE <<>>)
        \o (IF ~pkg.jis_compliant THEN <<JisWarning>> ELSE <<>>)
        \o (IF ~pkg.snaft_verified THEN <<SnaftWarning>> ELSE <<>>)

\* C2: the warnings are exactly the messages of the failed checks, in the
\* order trust, JIS, SNAFT; none when all checks pass, some whenever the
\* verdict is not valid.
C2_WarningsMatchFailedChecks ==
    \A r \in {1, 2} :
        Returned(r) =>
            /\ Verdict(r).warnings = ExpectedWarnings(package)
            /\ (package.trust_score >= 5 /\ package.jis_compliant
                    /\ package.snaft_verified => Verdict(r).warnings = <<>>)
            /\ (~Verdict(r).valid => Verdict(r).warnings # <<>>)

\* a package failing all three checks has been validated
C2_Witness ==
    /\ Returned(1)
    /\ package.trust_score < 5 /\ ~package.jis_compliant /\ ~package.snaft_verified
    /\ Len(Verdict(1).warnings) = 3

\* C3: two runs of validate on the same package that differ only in what the
\* advisory call does return the same valid, trust_ok, jis_ok, snaft_ok and
\* warnings.
C3_AdvisoryNeverGates ==
    Returned(1) /\ Returned(2) =>
        /\ Verdict(1).valid = Verdict(2).valid
        /\ Verdict(1).trust_ok = Verdict(2).trust_ok
        /\ Verdict(1).jis_ok = Verdict(2).jis_ok
        /\ Verdict(1).snaft_ok = Verdict(2).snaft_ok
        /\ Verdict(1).warnings = Verdict(2).warnings

\* one run timed out, the other got the text "block", on a passing package
C3_Witness ==
    /\ Returned(1) /\ Returned(2)
    /\ Advisory(1).kind = "timeout"
    /\ Advisory(2).kind = "ok" /\ Advisory(2).text = Some("block")
    /\ Verdict(1).ai_response # Verdict(2).ai_response
    /\ Verdict(1).valid

\* C4: on any advisory failure (timeout, connection refused, non-success
\* response) the verdict's advisory text is the offline sentinel.
C4_AdvisoryFailureGivesSentinel ==
    \A r \in {1, 2} :
        Returned(r) /\ Advisory(r).kind \in {"timeout", "connection_refused", "bad_status"}
            => Verdict(r).ai_response = Some(AiOffline)

(***************************************************************************)
(* Claims: PackageRegistry (under SpecRegistry)                            *)
(***************************************************************************)
\* C5: a refresh that fails returns False and leaves the in-memory store as
\* it was: list_all() gives the same records before and after.
C5_FailedRefreshKeepsStore ==
    [][ call'.op = "update" /\ call'.ret = FALSE
            => packages' = packages /\ list_all(packages') = list_all(packages) ]_vars

\* a refresh answered with a non-success status, on a store holding records
C5_Witness ==
    /\ call.op = "update" /\ call.arg = "bad_status" /\ call.ret = FALSE
    /\ packages # <<>>

\* C6: after a refresh that returns True the store holds exactly the records
\* of the fetched document.
C6_RefreshReplacesStore ==
    call.op = "update" /\ call.ret = TRUE
        => packages = Load(<<>>, file).packages

\* C7: get(name) returns the record whose name equals `name` ignoring case,
\* and returns None only when no loaded record's name matches ignoring case.
\* A record counts as matching only when both its registry key and its name
\* field equal `name` ignoring case.
C7_GetIgnoresCase ==
    call.op = "get" =>
        LET matches == { i \in DOMAIN packages :
                           /\ Lower(packages[i].key) = Lower(call.arg)
                           /\ Lower(packages[i].value.name) = Lower(call.arg) }
        IN  /\ matches # {} =>
                  /\ call.ret # None
                  /\ \E i \in matches : call.ret[1] = packages[i].value
            /\ call.ret = None => matches = {}

\* C8: every key of the store is lowercase, and no two records of the store
\* share a lowercased key (the key being the package name of the document).
C8_KeysNormalized ==
    /\ \A i \in DOMAIN packages : packages[i].key = Lower(packages[i].key)
    /\ \A i, j \in DOMAIN packages :
          i # j => Lower(packages[i].key) # Lower(packages[j].key)

\* C9: after a load from a missing or malformed document the store is empty,
\* whatever was parsed before the failure, and list_all(), search(q) and
\* get(n) return nothing.
C9_FailedLoadEmptiesStore ==
    load_status \in {"missing", "warning"} =>
        /\ packages = <<>>
        /\ list_all(packages) = <<>>
        /\ \A q \in Queries : search(packages, q) = <<>>
        /\ \A n \in Names : get(packages, n) = None
        /\ call.op \in {"search", "list_all"} => call.ret = <<>>
        /\ call.op = "get" => call.ret = None

\* a document whose second item is malformed, after a first item that
\* parsed, was loaded, and search was called
C9_Witness ==
    /\ load_status = "warning"
    /\ file.json_ok /\ Len(file.entries) >= 2
    /\ file.entries[1].is_object /\ ~file.entries[2].is_object
    /\ call.op = "search"

\* `query` occurs in s, letter case ignored
IContains(s, query) ==
    \E i \in 0..(Len(s) - Len(query)) :
        \A j \in 1..Len(query) : LowerChar(s[i + j]) = LowerChar(query[j])

\* the record's name (its registry key or its name field) or its description
\* contains the query
Matches(item, query) ==
    \/ IContains(item.key, query)
    \/ IContains(item.value.name, query)
    \/ IContains(item.value.description, query)

\* the records of the document _load last read, in the document's order.
\* A file that parses is the document last loaded: only update() writes the
\* file, and it either loads what it wrote or, its write failing, leaves the
\* file as it was or truncated.
LoadedDocument == Load(<<>>, file).packages

\* C11: search(query) returns exactly the records of the loaded document
\* whose name or description contains the query ignoring case, each once, in
\* the insertion order of the loaded document; the empty sequence when none
\* matches.
C11_SearchLoadedDocumentOrder ==
    call.op = "search" /\ file.json_ok =>
        LET Hit(item) == Matches(item, call.arg)
            hits == SelectSeq(LoadedDocument, Hit)
        IN  call.ret = [i \in DOMAIN hits |-> hits[i].value]

(***************************************************************************)
(* Claims: cmd_install (under SpecInstall)                                 *)
(***************************************************************************)
Found == Lower(call.arg.package) \in Keys(packages)

VerdictValid == call.validation # None /\ call.validation[1].valid

\* C10: pip is invoked only if the package was found and its verdict is
\* valid or --force was given; when the package is not found, or the verdict
\* is not valid and --force was not given, cmd_install returns 1 and pip is
\* not invoked.
C10_InstallGate ==
    call.op = "install" =>
        /\ call.pip # <<>> => Found /\ (VerdictValid \/ call.arg.force)
        /\ ~Found \/ (~VerdictValid /\ ~call.arg.force)
               => call.ret = 1 /\ call.pip = <<>>

\* a package that fails validation was installed with --force
C10_Witness ==
    /\ call.op = "install"
    /\ Found /\ ~VerdictValid /\ call.arg.force
    /\ call.pip # <<>>

====
